---- MODULE Spec2Model ----
(***************************************************************************)
(* Model of src/telegram_bridge.py: the Telegram channel -> Discord        *)
(* webhook bridge.                                                         *)
(*                                                                         *)
(* Spec        the dispatch pipeline: main, handle_channel_post,           *)
(*             send_to_discord, get_http_client, post_to_discord_webhook   *)
(*             and close_http_client, for NumPosts channel posts handled   *)
(*             as asyncio tasks.  A step of the model is the code that     *)
(*             runs between two suspension points of a coroutine.          *)
(* SpecOffset  _utf16_offset_to_py_index applied to bounded inputs.        *)
(* SpecRender  _apply_telegram_entities_to_discord_markdown applied to     *)
(*             bounded inputs.                                             *)
(***************************************************************************)
EXTENDS Integers, Sequences, FiniteSets, TLC

VARIABLES
    tokenSet,     \* TG_BOT_TOKEN is set
    urlSet,       \* TELEGRAM_DISCORD_WEBHOOK_URL is set
    phase,        \* position of main / the application life cycle
    http_client,  \* the module-level slot: NoClient or the id of a client
    aclosed,      \* aclosed[c]: number of aclose() calls on client c
    pc,           \* pc[p]: position of the handler of post p
    media,        \* media[p]: result of pick_telegram_media for post p
    client,       \* client[p]: the local `client` of send_to_discord
    attempt,      \* attempt[p]: loop variable of post_to_discord_webhook
    posts,        \* posts[p]: number of client.post calls made for p
    sleeps,       \* sleeps[p]: the asyncio.sleep durations, in order
    last,         \* last[p]: outcome of the latest client.post
    all503,       \* all503[p]: every outcome so far was a 503
    fetch,        \* fetch[p]: progress of the attachment download
    reqs,         \* reqs[p]: the forms of the webhook requests made
    raised,       \* raised[p]: exception that reached handle_channel_post
    text,         \* argument `text` / `s` of the two text functions
    entities,     \* argument `entities`
    utf16_offset, \* argument `utf16_offset`
    result,       \* value returned by _utf16_offset_to_py_index
    out,          \* the list `out` built by the renderer
    tpc           \* "input" before the text function ran, "done" after

vars == <<tokenSet, urlSet, phase, http_client, aclosed, pc, media, client,
          attempt, posts, sleeps, last, all503, fetch, reqs, raised,
          text, entities, utf16_offset, result, out, tpc>>

dispatchVars == <<tokenSet, urlSet, phase, http_client, aclosed, pc, media,
                  client, attempt, posts, sleeps, last, all503, fetch, reqs,
                  raised>>

textVars == <<text, entities, utf16_offset, result, out, tpc>>

(***************************************************************************)
(* Bounds                                                                  *)
(***************************************************************************)
NumPosts == 2

MaxTextLen == 3

MaxEnts == 2

MaxOffset == 2

MaxLength == 3

Posts == 1..NumPosts

(***************************************************************************)
(* Program constants and encodings                                         *)
(***************************************************************************)
DISCORD_MAX_FILE_BYTES == 8388608

\* http_client = None
NoClient == 0

\* file_size is None
NoSize == -1

\* client.post raised httpx.RequestError: there is no status code
RequestError == 0

\* status codes the webhook answers with: success, permanent 4xx, rate
\* limit, and the two ends of the 5xx class that occur in practice
Statuses == {200, 400, 429, 500, 503}

Outcomes == Statuses \cup {RequestError}

\* pick_telegram_media: None, or (file_id, filename, file_size) of which
\* only file_size decides anything
MediaChoices ==
    {[present |-> FALSE, file_size |-> NoSize]} \cup
    {[present |-> TRUE, file_size |-> s] :
        s \in {NoSize, DISCORD_MAX_FILE_BYTES, DISCORD_MAX_FILE_BYTES + 1}}

NoMedia == [present |-> FALSE, file_size |-> NoSize]

(***************************************************************************)
(* get_http_client / close_http_client                                     *)
(***************************************************************************)
\* a slot that is never looked at: every call creates a client
ClientMissingAlways(slot) == TRUE

\* `if http_client is None`
ClientMissing(slot) == slot = NoClient

\* a hook that never finds a client to close
CloseNeededNever(slot) == FALSE

\* `if http_client is not None`
CloseNeeded(slot) == slot /= NoClient

(***************************************************************************)
(* post_to_discord_webhook                                                 *)
(***************************************************************************)
\* r.raise_for_status() returns for a 2xx response
IsSuccess(status) == status \in 200..299

\* a retry test that forgets the rate limit
RetriableServerOnly(status) == status >= 500

\* negation of `status != 429 and status < 500`
Retriable(status) == ~(status /= 429 /\ status < 500)

\* `if attempt == 2: raise`
LastAttempt(a) == a = 2

\* a backoff that starts one power too high
BackoffFromTwo(a) == 2 ^ (a + 1)

\* `2 ** attempt`
Backoff(a) == 2 ^ a

\* One iteration of the loop with loop variable a and outcome o of
\* client.post: "return", the exception raised, or "sleep".
AttemptResult(a, o) ==
    IF o = RequestError
    THEN IF LastAttempt(a) THEN "RequestError" ELSE "sleep"
    ELSE IF IsSuccess(o) THEN "return"
    ELSE IF ~Retriable(o) THEN "HTTPStatusError"
    ELSE IF LastAttempt(a) THEN "HTTPStatusError"
    ELSE "sleep"

(***************************************************************************)
(* send_to_discord / handle_channel_post                                   *)
(***************************************************************************)
\* a size test that is off by one
OversizeOffByOne(file_size) ==
    file_size /= NoSize /\ file_size > DISCORD_MAX_FILE_BYTES + 1

\* `file_size is not None and file_size > DISCORD_MAX_FILE_BYTES`
Oversize(file_size) ==
    file_size /= NoSize /\ file_size > DISCORD_MAX_FILE_BYTES

\* the webhook request send_to_discord builds for media m
RequestFor(m) ==
    IF ~m.present THEN [form |-> "json", note |-> FALSE]
    ELSE IF Oversize(m.file_size) THEN [form |-> "json", note |-> TRUE]
    ELSE [form |-> "multipart", note |-> FALSE]

\* where send_to_discord suspends first for media m
FirstAwait(m) ==
    IF ~m.present THEN "post"
    ELSE IF Oversize(m.file_size) THEN "post"
    ELSE "get_file"

\* the except clauses of send_to_discord around post_to_discord_webhook
Reraised(exc) ==
    IF exc \in {"RequestError", "HTTPStatusError"} THEN "RuntimeError"
    ELSE exc

\* a download whose error is swallowed
AfterFetchSwallowed(ok, next) == next

\* get_file / download_to_memory are awaited outside any try block: an
\* error propagates, a success goes on to the next statement
AfterFetch(ok, next) == IF ok THEN next ELSE "raise"

\* a handler that catches RuntimeError only
HandlerCatchesRuntimeError(exc) == exc = "RuntimeError"

\* `except Exception` of handle_channel_post
HandlerCatches(exc) ==
    exc \in {"RuntimeError", "TelegramError", "RequestError", "HTTPStatusError"}

Terminal == {"forwarded", "failed", "escaped"}

\* state of post p's handler after exception exc reached handle_channel_post
Finish(p, exc) ==
    /\ pc' = [pc EXCEPT ![p] = IF HandlerCatches(exc) THEN "failed" ELSE "escaped"]
    /\ raised' = [raised EXCEPT ![p] = exc]

(***************************************************************************)
(* The dispatch pipeline                                                   *)
(***************************************************************************)
TextIdle ==
    /\ text = <<>>
    /\ entities = <<>>
    /\ utf16_offset = 0
    /\ result = 0
    /\ out = <<>>
    /\ tpc = "unused"

DispatchIdle ==
    /\ tokenSet = TRUE
    /\ urlSet = TRUE
    /\ phase = "unused"
    /\ http_client = NoClient
    /\ aclosed = <<>>
    /\ pc = [p \in Posts |-> "idle"]
    /\ media = [p \in Posts |-> NoMedia]
    /\ client = [p \in Posts |-> NoClient]
    /\ attempt = [p \in Posts |-> 0]
    /\ posts = [p \in Posts |-> 0]
    /\ sleeps = [p \in Posts |-> <<>>]
    /\ last = [p \in Posts |-> RequestError]
    /\ all503 = [p \in Posts |-> TRUE]
    /\ fetch = [p \in Posts |-> "none"]
    /\ reqs = [p \in Posts |-> {}]
    /\ raised = [p \in Posts |-> "none"]

\* The module has been imported: the environment is read, no client exists,
\* no post has been delivered.
Init ==
    /\ tokenSet \in BOOLEAN
    /\ urlSet \in BOOLEAN
    /\ phase = "start"
    /\ http_client = NoClient
    /\ aclosed = <<>>
    /\ pc = [p \in Posts |-> "idle"]
    /\ media = [p \in Posts |-> NoMedia]
    /\ client = [p \in Posts |-> NoClient]
    /\ attempt = [p \in Posts |-> 0]
    /\ posts = [p \in Posts |-> 0]
    /\ sleeps = [p \in Posts |-> <<>>]
    /\ last = [p \in Posts |-> RequestError]
    /\ all503 = [p \in Posts |-> TRUE]
    /\ fetch = [p \in Posts |-> "none"]
    /\ reqs = [p \in Posts |-> {}]
    /\ raised = [p \in Posts |-> "none"]
    /\ TextIdle

handlerVars == <<pc, media, client, attempt, posts, sleeps, last, all503,
                 fetch, reqs, raised>>

\* main: the two configuration checks, then the application is built with
\* close_http_client as its post_shutdown hook and polling starts.
Main ==
    /\ phase = "start"
    /\ phase' = IF tokenSet /\ urlSet THEN "polling" ELSE "config_error"
    /\ UNCHANGED <<tokenSet, urlSet, http_client, aclosed>>
    /\ UNCHANGED handlerVars
    /\ UNCHANGED textVars

\* handle_channel_post(p) up to the first suspension of send_to_discord:
\* the configuration check, build_discord_content, pick_telegram_media and
\* get_http_client, which has no suspension point of its own.
HandleChannelPost(p) ==
    /\ phase = "polling"
    /\ pc[p] = "idle"
    /\ IF ~urlSet
       THEN /\ Finish(p, "RuntimeError")
            /\ UNCHANGED <<http_client, aclosed, media, client>>
       ELSE \E m \in MediaChoices :
            /\ media' = [media EXCEPT ![p] = m]
            /\ IF ClientMissing(http_client)
               THEN /\ http_client' = Len(aclosed) + 1
                    /\ aclosed' = Append(aclosed, 0)
               ELSE UNCHANGED <<http_client, aclosed>>
            /\ client' = [client EXCEPT ![p] = http_client']
            /\ pc' = [pc EXCEPT ![p] = FirstAwait(m)]
            /\ UNCHANGED raised
    /\ fetch' = [fetch EXCEPT ![p] = IF pc'[p] = "get_file" THEN "started" ELSE @]
    /\ UNCHANGED <<tokenSet, urlSet, phase, attempt, posts, sleeps, last,
                   all503, reqs>>
    /\ UNCHANGED textVars

\* `await context.bot.get_file(file_id)` completes, with a file or an error
GetFile(p) ==
    /\ pc[p] = "get_file"
    /\ \E ok \in BOOLEAN :
        LET next == AfterFetch(ok, "download") IN
        /\ fetch' = [fetch EXCEPT ![p] = IF ok THEN @ ELSE "error"]
        /\ IF next = "raise"
           THEN Finish(p, "TelegramError")
           ELSE /\ pc' = [pc EXCEPT ![p] = next]
                /\ UNCHANGED raised
    /\ UNCHANGED <<tokenSet, urlSet, phase, http_client, aclosed, media,
                   client, attempt, posts, sleeps, last, all503, reqs>>
    /\ UNCHANGED textVars

\* `await tg_file.download_to_memory(out=buf)` completes
DownloadToMemory(p) ==
    /\ pc[p] = "download"
    /\ \E ok \in BOOLEAN :
        LET next == AfterFetch(ok, "post") IN
        /\ fetch' = [fetch EXCEPT ![p] = IF ok THEN "ok" ELSE "error"]
        /\ IF next = "raise"
           THEN Finish(p, "TelegramError")
           ELSE /\ pc' = [pc EXCEPT ![p] = next]
                /\ UNCHANGED raised
    /\ UNCHANGED <<tokenSet, urlSet, phase, http_client, aclosed, media,
                   client, attempt, posts, sleeps, last, all503, reqs>>
    /\ UNCHANGED textVars

\* One iteration of the loop of post_to_discord_webhook: (after the backoff
\* sleep of the previous iteration, if any) client.post is called, its
\* outcome o arrives, and the iteration returns, raises or starts to sleep.
PostToDiscordWebhook(p) ==
    /\ pc[p] \in {"post", "sleep"}
    /\ \E o \in Outcomes :
        LET a == IF pc[p] = "sleep" THEN attempt[p] + 1 ELSE attempt[p]
            res == AttemptResult(a, o)
        IN
        /\ attempt' = [attempt EXCEPT ![p] = a]
        /\ posts' = [posts EXCEPT ![p] = @ + 1]
        /\ reqs' = [reqs EXCEPT ![p] = @ \cup {RequestFor(media[p])}]
        /\ last' = [last EXCEPT ![p] = o]
        /\ all503' = [all503 EXCEPT ![p] = @ /\ o = 503]
        /\ IF res = "return"
           THEN /\ pc' = [pc EXCEPT ![p] = "forwarded"]
                /\ UNCHANGED <<raised, sleeps>>
           ELSE IF res = "sleep"
           THEN /\ pc' = [pc EXCEPT ![p] = "sleep"]
                /\ sleeps' = [sleeps EXCEPT ![p] = Append(@, Backoff(a))]
                /\ UNCHANGED raised
           ELSE /\ Finish(p, Reraised(res))
                /\ UNCHANGED sleeps
    /\ UNCHANGED <<tokenSet, urlSet, phase, http_client, aclosed, media,
                   client, fetch>>
    /\ UNCHANGED textVars

\* run_polling is interrupted: the application stops taking updates and
\* waits for the handlers that are running.
StopPolling ==
    /\ phase = "polling"
    /\ phase' = "stopping"
    /\ UNCHANGED <<tokenSet, urlSet, http_client, aclosed>>
    /\ UNCHANGED handlerVars
    /\ UNCHANGED textVars

\* `.post_shutdown(close_http_client)`: run_polling calls the hook once,
\* after the application has stopped and shut down, that is once every
\* handler it started has returned.
HandlersFinished == \A p \in Posts : pc[p] \in Terminal \cup {"idle"}

\* close_http_client up to its suspension in `await http_client.aclose()`
CloseHttpClient ==
    /\ phase = "stopping"
    /\ HandlersFinished
    /\ IF CloseNeeded(http_client)
       THEN /\ aclosed' = [aclosed EXCEPT ![http_client] = @ + 1]
            /\ phase' = "aclose"
       ELSE /\ phase' = "down"
            /\ UNCHANGED aclosed
    /\ UNCHANGED <<tokenSet, urlSet, http_client>>
    /\ UNCHANGED handlerVars
    /\ UNCHANGED textVars

\* aclose() has completed: `http_client = None`
AcloseDone ==
    /\ phase = "aclose"
    /\ http_client' = NoClient
    /\ phase' = "down"
    /\ UNCHANGED <<tokenSet, urlSet, aclosed>>
    /\ UNCHANGED handlerVars
    /\ UNCHANGED textVars

Next ==
    \/ Main
    \/ \E p \in Posts : HandleChannelPost(p)
    \/ \E p \in Posts : GetFile(p)
    \/ \E p \in Posts : DownloadToMemory(p)
    \/ \E p \in Posts : PostToDiscordWebhook(p)
    \/ StopPolling
    \/ CloseHttpClient
    \/ AcloseDone

Spec == Init /\ [][Next]_vars

(***************************************************************************)
(* Properties of the dispatch pipeline                                     *)
(***************************************************************************)
InFlight(p) == pc[p] \in {"get_file", "download", "post", "sleep"}

Transient(o) == o = 0 \/ o = 429 \/ o \in 500..599

\* C1, as stated: a call that saw only 503 responses ends after exactly 3
\* POSTs, having slept 1 s, 2 s and 4 s, and has then failed.
C1_Stated ==
    \A p \in Posts :
        (all503[p] /\ posts[p] >= 1 /\ pc[p] \in Terminal) =>
            /\ posts[p] = 3
            /\ sleeps[p] = <<1, 2, 4>>
            /\ pc[p] = "failed"

\* C1, amended: a call that saw only 503 responses never makes a fourth
\* POST; it ends only after exactly 3 POSTs, then it has failed, and it has
\* slept exactly twice, 1 s after the first and 2 s after the second POST
\* (there is no sleep after the third).
C1_Backoff ==
    \A p \in Posts :
        (all503[p] /\ posts[p] >= 1) =>
            /\ posts[p] <= 3
            /\ posts[p] = 3 => pc[p] = "failed"
            /\ posts[p] < 3 => (pc[p] = "sleep" /\ Len(sleeps[p]) = posts[p])
            /\ pc[p] \in Terminal =>
                  /\ posts[p] = 3
                  /\ sleeps[p] = <<1, 2>>
                  /\ pc[p] = "failed"
                  /\ raised[p] = "RuntimeError"

C1_Witness ==
    \E p \in Posts : all503[p] /\ posts[p] = 3 /\ pc[p] = "failed"

\* C2: after any POST, a further attempt is pending exactly when the POST
\* ended in a network error, a 429 or a 5xx and fewer than 3 POSTs were
\* made; a 2xx ends the call as forwarded; anything else ends it as failed;
\* an ending POST is followed by no backoff sleep.
C2_RetryPolicy ==
    \A p \in Posts :
        posts[p] >= 1 =>
            /\ posts[p] <= 3
            /\ pc[p] \in {"sleep", "forwarded", "failed"}
            /\ pc[p] = "sleep" <=> (Transient(last[p]) /\ posts[p] < 3)
            /\ pc[p] = "forwarded" <=> last[p] \in 200..299
            /\ Len(sleeps[p]) = (IF pc[p] = "sleep" THEN posts[p] ELSE posts[p] - 1)
            /\ attempt[p] = posts[p] - 1

C2_Witness ==
    \E p \in Posts :
        /\ posts[p] = 1
        /\ last[p] = 400
        /\ pc[p] = "failed"
        /\ sleeps[p] = <<>>

\* C3: for a post whose media has a known size above the maximum, the
\* download is never started and every webhook request is the JSON
\* text-only request with the size-skip notice.
C3_OversizeNoFetch ==
    \A p \in Posts :
        (/\ pc[p] /= "idle"
         /\ media[p].present
         /\ media[p].file_size /= NoSize
         /\ media[p].file_size > DISCORD_MAX_FILE_BYTES) =>
            /\ fetch[p] = "none"
            /\ pc[p] \notin {"get_file", "download"}
            /\ reqs[p] \subseteq {[form |-> "json", note |-> TRUE]}

C3_Witness ==
    \E p \in Posts :
        /\ media[p].present
        /\ media[p].file_size = DISCORD_MAX_FILE_BYTES + 1
        /\ pc[p] = "forwarded"
        /\ reqs[p] = {[form |-> "json", note |-> TRUE]}

\* C4: however the handlers interleave, at most one client is ever created
\* and every handler that obtained a client obtained that one.
C4_SingleClient ==
    /\ Len(aclosed) <= 1
    /\ \A p \in Posts :
          pc[p] \in {"get_file", "download", "post", "sleep", "forwarded"} =>
              client[p] = 1
    /\ \A p, q \in Posts :
          (client[p] /= NoClient /\ client[q] /= NoClient) =>
              client[p] = client[q]

C4_Witness ==
    \E p, q \in Posts :
        /\ p /= q
        /\ InFlight(p)
        /\ InFlight(q)
        /\ client[p] /= NoClient
        /\ client[p] = client[q]

C9_Step ==
    \A p \in Posts :
        /\ pc[p] = "failed" =>
              /\ pc'[p] = "failed"
              /\ posts'[p] = posts[p]
              /\ reqs'[p] = reqs[p]
              /\ fetch'[p] = fetch[p]
              /\ sleeps'[p] = sleeps[p]
        /\ (pc[p] /= "failed" /\ pc'[p] = "failed") =>
              /\ \A q \in Posts \ {p} :
                    /\ pc'[q] = pc[q]
                    /\ client'[q] = client[q]
                    /\ attempt'[q] = attempt[q]
                    /\ posts'[q] = posts[q]
                    /\ raised'[q] = raised[q]
              /\ http_client' = http_client
              /\ aclosed' = aclosed
              /\ phase' = phase

\* C9: no exception leaves handle_channel_post; the step in which a post
\* fails changes nothing of any other post, of the client or of the
\* application; and a failed post stays failed: no further download or
\* webhook request is made for it.
C9_FailureContained ==
    /\ [](\A p \in Posts : pc[p] /= "escaped")
    /\ [](\A p \in Posts : pc[p] = "failed" <=> raised[p] /= "none")
    /\ [][C9_Step]_vars

C9_Witness ==
    \E p, q \in Posts :
        /\ p /= q
        /\ pc[p] = "failed"
        /\ raised[p] = "TelegramError"
        /\ pc[q] = "forwarded"

\* C10: for a post whose media has no declared size or one within the
\* maximum, a webhook POST has been made only if the download completed;
\* after a failed download the post has failed with no webhook request, no
\* POST and no backoff sleep.
C10_FetchBeforePost ==
    \A p \in Posts :
        (/\ media[p].present
         /\ (media[p].file_size = NoSize \/ media[p].file_size <= DISCORD_MAX_FILE_BYTES)) =>
            /\ posts[p] > 0 => fetch[p] = "ok"
            /\ pc[p] \in {"post", "sleep", "forwarded"} => fetch[p] = "ok"
            /\ reqs[p] \subseteq {[form |-> "multipart", note |-> FALSE]}
            /\ fetch[p] = "error" =>
                  /\ pc[p] = "failed"
                  /\ posts[p] = 0
                  /\ reqs[p] = {}
                  /\ sleeps[p] = <<>>

C10_Witness ==
    \E p, q \in Posts :
        /\ media[p].present
        /\ media[p].file_size = NoSize
        /\ fetch[p] = "error"
        /\ pc[p] = "failed"
        /\ media[q].present
        /\ media[q].file_size = DISCORD_MAX_FILE_BYTES
        /\ fetch[q] = "ok"
        /\ posts[q] > 0

(***************************************************************************)
(* _utf16_offset_to_py_index                                               *)
(***************************************************************************)
\* a surrogate test that is off by one
Utf16UnitsOffByOne(ch) == IF ch >= 65535 THEN 2 ELSE 1

\* `2 if ord(ch) > 0xFFFF else 1`
Utf16Units(ch) == IF ch > 65535 THEN 2 ELSE 1

\* the for loop, entered at Python index i with the running count
RECURSIVE Utf16Scan(_, _, _, _)
Utf16Scan(s, off, i, count) ==
    IF i >= Len(s) THEN Len(s)
    ELSE LET c == count + Utf16Units(s[i + 1]) IN
         IF c > off THEN i
         ELSE IF c = off THEN i + 1
         ELSE Utf16Scan(s, off, i + 1, c)

Utf16OffsetToPyIndex(s, off) ==
    IF off <= 0 THEN 0 ELSE Utf16Scan(s, off, 0, 0)

(***************************************************************************)
(* _apply_telegram_entities_to_discord_markdown                            *)
(*                                                                         *)
(* A marker is the tuple of the pieces its string is formatted from:       *)
(* <<"**">>, <<"[">>, <<"](", url, ")">>, <<"BQBQBQ", lang, "\n">>.        *)
(* BQ stands for the backquote character, which a TLA+ string cannot hold. *)
(* An element of `out` is a token: a marker, tagged with the map it was    *)
(* taken from, or a character of the text.                                 *)
(***************************************************************************)
FmtTypes == <<"bold", "italic", "underline", "strikethrough", "code">>

FmtMarkers(t) ==
    CASE t = "bold" -> <<"**">>
      [] t = "italic" -> <<"*">>
      [] t = "underline" -> <<"__">>
      [] t = "strikethrough" -> <<"~~">>
      [] t = "code" -> <<"BQ">>

Supported ==
    {"bold", "italic", "underline", "strikethrough", "code", "text_link", "pre"}

\* open_priority.get(t, 100)
OpenPriority(t) ==
    CASE t = "pre" -> 0
      [] t = "bold" -> 1
      [] t = "italic" -> 2
      [] t = "underline" -> 3
      [] t = "strikethrough" -> 4
      [] t = "code" -> 5
      [] t = "text_link" -> 10
      [] OTHER -> 100

\* close_priority.get(t, 100)
ClosePriority(t) ==
    CASE t = "text_link" -> 1
      [] t = "code" -> 5
      [] t = "strikethrough" -> 6
      [] t = "underline" -> 7
      [] t = "italic" -> 8
      [] t = "bold" -> 9
      [] t = "pre" -> 20
      [] OTHER -> 100

\* the loop over fmt_markers in marker_type_open / marker_type_close
RECURSIVE FmtTypeOf(_, _)
FmtTypeOf(m, k) ==
    IF k > Len(FmtTypes) THEN "bold"
    ELSE IF m = FmtMarkers(FmtTypes[k]) THEN FmtTypes[k]
    ELSE FmtTypeOf(m, k + 1)

MarkerTypeOpen(m) ==
    IF m = <<"[">> THEN "text_link"
    ELSE IF m[1] = "BQBQBQ" THEN "pre"
    ELSE FmtTypeOf(m, 1)

MarkerTypeClose(m) ==
    IF m[1] = "](" THEN "text_link"
    ELSE IF m = <<"\nBQBQBQ">> THEN "pre"
    ELSE FmtTypeOf(m, 1)

\* list.sort(key=...): a stable sort of records [k |-> key, v |-> item]
RECURSIVE InsertStable(_, _)
InsertStable(sorted, x) ==
    IF sorted = <<>> THEN <<x>>
    ELSE IF sorted[Len(sorted)].k <= x.k THEN Append(sorted, x)
    ELSE Append(InsertStable(SubSeq(sorted, 1, Len(sorted) - 1), x),
                sorted[Len(sorted)])

RECURSIVE SortKeyed(_)
SortKeyed(ps) ==
    IF ps = <<>> THEN <<>>
    ELSE InsertStable(SortKeyed(SubSeq(ps, 1, Len(ps) - 1)), ps[Len(ps)])

SortOpens(ms) ==
    LET keyed == [j \in 1..Len(ms) |-> [k |-> OpenPriority(MarkerTypeOpen(ms[j])), v |-> ms[j]]]
        sorted == SortKeyed(keyed)
    IN [j \in 1..Len(ms) |-> sorted[j].v]

SortCloses(ms) ==
    LET keyed == [j \in 1..Len(ms) |-> [k |-> ClosePriority(MarkerTypeClose(ms[j])), v |-> ms[j]]]
        sorted == SortKeyed(keyed)
    IN [j \in 1..Len(ms) |-> sorted[j].v]

\* `start < 0 or end < 0 or start >= end or end > len(text)`
RangeRejected(txt, start, end) ==
    start < 0 \/ end < 0 \/ start >= end \/ end > Len(txt)

\* the (open, close) markers one entity adds, <<>> when it adds none
EntityMarkers(e) ==
    IF e.type = "text_link"
    THEN IF e.url = "" THEN <<>> ELSE << <<"[">>, <<"](", e.url, ")">> >>
    ELSE IF e.type = "pre"
    THEN IF e.language /= "" THEN << <<"BQBQBQ", e.language, "\n">>, <<"\nBQBQBQ">> >>
         ELSE << <<"BQBQBQ", "\n">>, <<"\nBQBQBQ">> >>
    ELSE IF e.type \in {FmtTypes[k] : k \in 1..Len(FmtTypes)}
    THEN << FmtMarkers(e.type), FmtMarkers(e.type) >>
    ELSE <<>>

\* the loop `for e in ents`: maps is [opens, closes], both index -> list
RECURSIVE BuildMarkers(_, _, _)
BuildMarkers(txt, ents, maps) ==
    IF ents = <<>> THEN maps
    ELSE
        LET e == Head(ents)
            start == Utf16OffsetToPyIndex(txt, e.offset)
            end == Utf16OffsetToPyIndex(txt, e.offset + e.length)
            mk == EntityMarkers(e)
        IN
        IF RangeRejected(txt, start, end) \/ mk = <<>>
        THEN BuildMarkers(txt, Tail(ents), maps)
        ELSE BuildMarkers(txt, Tail(ents),
                 [opens |-> [maps.opens EXCEPT ![start] = Append(@, mk[1])],
                  closes |-> [maps.closes EXCEPT ![end] = Append(@, mk[2])]])

MarkerTokens(src, ms) == [j \in 1..Len(ms) |-> [src |-> src, m |-> ms[j], ch |-> 0]]

CharToken(c) == [src |-> "char", m |-> <<>>, ch |-> c]

\* the output pass over range(len(text) + 1)
RECURSIVE Emit(_, _, _)
Emit(txt, maps, i) ==
    IF i > Len(txt) THEN <<>>
    ELSE MarkerTokens("close", maps.closes[i])
         \o MarkerTokens("open", maps.opens[i])
         \o (IF i < Len(txt) THEN <<CharToken(txt[i + 1])>> ELSE <<>>)
         \o Emit(txt, maps, i + 1)

ApplyTelegramEntitiesToDiscordMarkdown(txt, entlist) ==
    LET plain == [j \in 1..Len(txt) |-> CharToken(txt[j])]
        ents == SelectSeq(entlist, LAMBDA e : e.type \in Supported)
    IN
    IF txt = <<>> \/ entlist = <<>> THEN plain
    ELSE IF ents = <<>> THEN plain
    ELSE
        LET empty == [i \in 0..Len(txt) |-> <<>>]
            built == BuildMarkers(txt, ents, [opens |-> empty, closes |-> empty])
            sorted == [opens |-> [i \in 0..Len(txt) |-> SortOpens(built.opens[i])],
                       closes |-> [i \in 0..Len(txt) |-> SortCloses(built.closes[i])]]
        IN Emit(txt, sorted, 0)

\* "".join(out): the pieces of the returned string, in order
RECURSIVE Joined(_)
Joined(toks) ==
    IF toks = <<>> THEN <<>>
    ELSE LET t == Head(toks) IN
         (IF t.src = "char" THEN <<[s |-> "", ch |-> t.ch]>>
          ELSE [j \in 1..Len(t.m) |-> [s |-> t.m[j], ch |-> 0]])
         \o Joined(Tail(toks))

(***************************************************************************)
(* Inputs of the text functions                                            *)
(***************************************************************************)
\* "a", U+FFFF (the last BMP character), U+10000 (the first non-BMP
\* character) and U+1F600
CodePoints == {97, 65535, 65536, 128512}

RenderCodePoints == {97, 128512}

StringsOver(alphabet, n) == UNION {[1..k -> alphabet] : k \in 0..n}

EntityInputs ==
    [type : {"bold", "italic", "url"}, offset : 0..MaxOffset,
     length : 0..MaxLength, url : {""}, language : {""}]
    \cup
    [type : {"text_link"}, offset : 0..MaxOffset,
     length : 0..MaxLength, url : {"", "u"}, language : {""}]

InitOffset ==
    /\ text \in StringsOver(CodePoints, MaxTextLen)
    /\ utf16_offset \in -1..(2 * MaxTextLen + 1)
    /\ entities = <<>>
    /\ result = 0
    /\ out = <<>>
    /\ tpc = "input"
    /\ DispatchIdle

\* result = _utf16_offset_to_py_index(text, utf16_offset)
MapOffset ==
    /\ tpc = "input"
    /\ result' = Utf16OffsetToPyIndex(text, utf16_offset)
    /\ tpc' = "done"
    /\ UNCHANGED <<text, entities, utf16_offset, out>>
    /\ UNCHANGED dispatchVars

NextOffset == MapOffset

SpecOffset == InitOffset /\ [][NextOffset]_vars

InitRender ==
    /\ text \in StringsOver(RenderCodePoints, MaxTextLen)
    /\ entities \in StringsOver(EntityInputs, MaxEnts)
    /\ utf16_offset = 0
    /\ result = 0
    /\ out = <<>>
    /\ tpc = "input"
    /\ DispatchIdle

\* out = _apply_telegram_entities_to_discord_markdown(text, entities)
Render ==
    /\ tpc = "input"
    /\ out' = ApplyTelegramEntitiesToDiscordMarkdown(text, entities)
    /\ tpc' = "done"
    /\ UNCHANGED <<text, entities, utf16_offset, result>>
    /\ UNCHANGED dispatchVars

NextRender == Render

SpecRender == InitRender /\ [][NextRender]_vars

(***************************************************************************)
(* Properties of the text functions                                        *)
(***************************************************************************)
\* UTF-16 length of a string: a code point from U+10000 on is encoded as a
\* surrogate pair
RECURSIVE Utf16Length(_)
Utf16Length(s) ==
    IF s = <<>> THEN 0
    ELSE (IF Head(s) \in 65536..1114111 THEN 2 ELSE 1) + Utf16Length(Tail(s))

\* C8: at the UTF-16 length of any prefix of the text the function returns
\* the prefix's native length; an offset <= 0 gives 0; an offset beyond the
\* text's UTF-16 length gives the text's native length.
C8_PrefixRoundTrip ==
    tpc = "done" =>
        /\ \A k \in 0..Len(text) :
              utf16_offset = Utf16Length(SubSeq(text, 1, k)) => result = k
        /\ utf16_offset <= 0 => result = 0
        /\ utf16_offset > Utf16Length(text) => result = Len(text)

C8_Witness ==
    /\ tpc = "done"
    /\ \E i, j \in 1..Len(text) : text[i] < 65536 /\ text[j] >= 65536
    /\ utf16_offset = Utf16Length(text)
    /\ Len(text) < utf16_offset
    /\ result = Len(text)

\* offset k lies between two characters of s
OnCharBoundary(s, k) == \E n \in 0..Len(s) : k = Utf16Length(SubSeq(s, 1, n))

C6Case(e) ==
    \/ e.offset = 0 /\ e.length = 0
    \/ e.offset + e.length > Utf16Length(text)

\* C6: an annotation with offset = 0 and length = 0, or with its end past
\* the end of the text, contributes nothing: the returned string is the
\* rendering of the other annotations.
C6_OutOfRangeDropped ==
    tpc = "done" =>
        Joined(out) =
            Joined(ApplyTelegramEntitiesToDiscordMarkdown(
                       text, SelectSeq(entities, LAMBDA e : ~C6Case(e))))

C7Annotation(e) ==
    /\ e.type \in {"bold", "italic", "text_link"}
    /\ e.type = "text_link" => e.url /= ""
    /\ e.length > 0
    /\ e.offset + e.length <= Utf16Length(text)
    /\ OnCharBoundary(text, e.offset)
    /\ OnCharBoundary(text, e.offset + e.length)

C7Overlap(e, f) ==
    /\ e.offset < f.offset + f.length
    /\ f.offset < e.offset + e.length
    /\ (e.offset = f.offset \/ e.offset + e.length = f.offset + f.length)

C7Case ==
    /\ \A i \in 1..Len(entities) : C7Annotation(entities[i])
    /\ \A i, j \in 1..Len(entities) :
          i /= j => C7Overlap(entities[i], entities[j])

C7Kind(m) ==
    CASE m[1] = "**" -> "bold"
      [] m[1] = "*" -> "italic"
      [] m[1] \in {"[", "]("} -> "text_link"
      [] OTHER -> "other"

\* every close marker closes the span opened last among those still open
RECURSIVE C7Nested(_, _)
C7Nested(toks, stack) ==
    IF toks = <<>> THEN stack = <<>>
    ELSE LET t == Head(toks) IN
         IF t.src = "char" THEN C7Nested(Tail(toks), stack)
         ELSE IF t.src = "open"
         THEN C7Nested(Tail(toks), Append(stack, C7Kind(t.m)))
         ELSE /\ stack /= <<>>
              /\ stack[Len(stack)] = C7Kind(t.m)
              /\ C7Nested(Tail(toks), SubSeq(stack, 1, Len(stack) - 1))

\* C7: for overlapping bold, italic and text_link annotations that share a
\* start or an end boundary the markers of the output are properly nested.
C7_ProperlyNested ==
    (tpc = "done" /\ C7Case) => C7Nested(out, <<>>)

====
